---- MODULE Spec2Model ----
(***************************************************************************)
(* Gold price scraper (scraper.py): fetch -> parse -> dedupe -> append.     *)
(*                                                                         *)
(* Text is modelled as a sequence of one-character strings, so that        *)
(* strip(), replace() and int() are computed character by character.       *)
(* A detail record is a function from its keys.  A decoded body is a       *)
(* record {kind, keys, list}: kind names the Python type it decodes to     *)
(* ("dict" or "list"), keys are the keys of a dict, and list is the list   *)
(* itself, or the value a dict holds under "chitiet".                      *)
(* A call that may raise returns a record {exc, ...}; exc = "None" is a    *)
(* normal return.                                                          *)
(***************************************************************************)
EXTENDS Integers, Sequences, FiniteSets, TLC

VARIABLES
    dir_exists,   \* the data directory exists
    csv_exists,   \* CSV_FILE exists on disk
    csv,          \* the lines of CSV_FILE, each line a sequence of text cells
    today,        \* main(): today, of the last run
    fetched,      \* main(): what fetch_gold_prices() did in the last run
    prices,       \* main(): parse_prices(data) of the last run
    new_rows,     \* save_prices(): new_rows of the last run
    stdout,       \* the lines printed by the last run (their kinds)
    status,       \* "START" before any run, then "DONE" or "FAILED"
    exit_code,    \* the process exit code of the last run
    runs,         \* how many runs have completed
    repeated,     \* history: the last run followed a completed run of the
                  \* same day with the same upstream response
    p_data,       \* parser harness: the argument of parse_prices
    p_out,        \* parser harness: what parse_prices returned or raised
    p_pc          \* parser harness: "call" before the call, "done" after

vars == <<dir_exists, csv_exists, csv, today, fetched, prices, new_rows,
          stdout, status, exit_code, runs, repeated, p_data, p_out, p_pc>>

----------------------------------------------------------------------------
(* Bounds *)

MaxRuns == 3
MaxParseItems == 2
MaxPriceLen == 3

----------------------------------------------------------------------------
(* Text *)

Whitespace == {" ", "\t", "\n"}

Digits == <<"0", "1", "2", "3", "4", "5", "6", "7", "8", "9">>

IsDigit(c) == \E i \in 1..Len(Digits) : Digits[i] = c

DigitVal(c) == (CHOOSE i \in 1..Len(Digits) : Digits[i] = c) - 1

\* str.strip(): drop leading and trailing whitespace
RECURSIVE lstrip(_)
lstrip(s) ==
    IF s # <<>> /\ Head(s) \in Whitespace THEN lstrip(Tail(s)) ELSE s

RECURSIVE rstrip(_)
rstrip(s) ==
    IF s # <<>> /\ s[Len(s)] \in Whitespace
    THEN rstrip(SubSeq(s, 1, Len(s) - 1))
    ELSE s

strip(s) == rstrip(lstrip(s))

\* str.replace(ch, ""): every occurrence of the character removed
replace(s, ch) == SelectSeq(s, LAMBDA c : c # ch)

\* int(s) for a text of the price alphabet: the decimal value of a
\* non-empty run of digits, ValueError otherwise
RECURSIVE DecimalValue(_)
DecimalValue(s) ==
    IF s = <<>> THEN 0
    ELSE 10 * DecimalValue(SubSeq(s, 1, Len(s) - 1)) + DigitVal(s[Len(s)])

int(s) ==
    IF s # <<>> /\ \A i \in 1..Len(s) : IsDigit(s[i])
    THEN [exc |-> "None", value |-> DecimalValue(s)]
    ELSE [exc |-> "ValueError", value |-> 0]

\* str(n) for n >= 0
RECURSIVE str(_)
str(n) ==
    IF n < 10 THEN <<Digits[n + 1]>>
    ELSE str(n \div 10) \o <<Digits[(n % 10) + 1]>>

----------------------------------------------------------------------------
(* Configuration *)

Nhan9999 == <<"N", "h", "ẫ", "n", " ", "9", "9", "9", ".", "9">>

VangMiengSJC ==
    <<"V", "à", "n", "g", " ", "M", "i", "ế", "n", "g", " ", "S", "J", "C",
      " ", "(", "L", "o", "ạ", "i", " ", "1", "0", " ", "c", "h", "ỉ", ")">>

GOLD_TYPES == <<Nhan9999, VangMiengSJC>>

InList(x, list) == \E i \in 1..Len(list) : list[i] = x

\* dict.get(key, default)
get(d, key, default) == IF key \in DOMAIN d THEN d[key] ELSE default

----------------------------------------------------------------------------
(* parse_prices *)

\* variant of price: the "," is not removed
price_no_comma(item, key) ==
    LET text == replace(get(item, key, <<"0">>), ".")
    IN  IF text # <<>> THEN int(text) ELSE [exc |-> "None", value |-> 0]

\* one price field: item.get(key, "0").replace(".", "").replace(",", ""),
\* then int(..) if the text is non-empty else 0
price(item, key) ==
    LET text == replace(replace(get(item, key, <<"0">>), "."), ",")
    IN  IF text # <<>> THEN int(text) ELSE [exc |-> "None", value |-> 0]

\* variant of matches: the label is not stripped
matches_unstripped(item) == InList(get(item, "loaivang", <<>>), GOLD_TYPES)

\* the membership test of the loop body
matches(item) == InList(strip(get(item, "loaivang", <<>>)), GOLD_TYPES)

\* the loop over items, from item i on, with the results so far
RECURSIVE parse_loop(_, _, _)
parse_loop(items, i, results) ==
    IF i > Len(items) THEN [exc |-> "None", value |-> results]
    ELSE LET item == items[i]
             name == strip(get(item, "loaivang", <<>>))
             buy  == price(item, "giamua")
             sell == price(item, "giaban")
         IN  IF ~matches(item) THEN parse_loop(items, i + 1, results)
             ELSE IF buy.exc # "None" THEN [exc |-> buy.exc, value |-> <<>>]
             ELSE IF sell.exc # "None" THEN [exc |-> sell.exc, value |-> <<>>]
             ELSE parse_loop(items, i + 1,
                      Append(results, [gold_type  |-> name,
                                       buy_price  |-> buy.value,
                                       sell_price |-> sell.value]))

\* data.get("chitiet", data if isinstance(data, list) else []): a list has
\* no attribute "get", so the lookup itself raises for a list
detail_records(data) ==
    IF data.kind = "list" THEN [exc |-> "AttributeError", value |-> <<>>]
    ELSE [exc |-> "None",
          value |-> IF "chitiet" \in data.keys THEN data.list ELSE <<>>]

parse_prices(data) ==
    LET items == detail_records(data)
    IN  IF items.exc # "None" THEN items
        ELSE parse_loop(items.value, 1, <<>>)

----------------------------------------------------------------------------
(* The history store: CSV_FILE *)

T_date == <<"d", "a", "t", "e">>
T_gold_type == <<"g", "o", "l", "d", "_", "t", "y", "p", "e">>
T_buy_price == <<"b", "u", "y", "_", "p", "r", "i", "c", "e">>
T_sell_price == <<"s", "e", "l", "l", "_", "p", "r", "i", "c", "e">>

\* the header row written at line 83
Header == <<T_date, T_gold_type, T_buy_price, T_sell_price>>

\* csv.DictReader: the first line names the columns, every later line is a
\* row read through those names
column(fieldnames, name) ==
    CHOOSE i \in 1..Len(fieldnames) : fieldnames[i] = name

\* variant of load_existing_dates: the first data row is skipped with the
\* header
load_existing_dates_skips_first_row(exists, lines) ==
    IF ~exists \/ lines = <<>> THEN [exc |-> "None", value |-> {}]
    ELSE [exc |-> "None",
          value |-> {<<lines[r][column(lines[1], T_date)],
                       lines[r][column(lines[1], T_gold_type)]>> :
                     r \in 3..Len(lines)}]

\* the set of (date, gold_type) pairs of the rows of the file
load_existing_dates(exists, lines) ==
    IF ~exists \/ lines = <<>> THEN [exc |-> "None", value |-> {}]
    ELSE LET fieldnames == lines[1]
         IN  IF ~InList(T_date, fieldnames) \/ ~InList(T_gold_type, fieldnames)
             THEN [exc |-> IF Len(lines) > 1 THEN "KeyError" ELSE "None",
                   value |-> {}]
             ELSE [exc |-> "None",
                   value |-> {<<lines[r][column(fieldnames, T_date)],
                                lines[r][column(fieldnames, T_gold_type)]>> :
                              r \in 2..Len(lines)}]

\* the row written at line 85: csv.writer writes str() of every value
csv_row(today_str, p) ==
    <<today_str, p.gold_type, str(p.buy_price), str(p.sell_price)>>

\* A fault of the write pass (lines 80-86), struck once `done` writerow
\* calls have been made.  "open": open() raises, the file is not created.
\* "write": the next writerow raises.  "print": the print that follows the
\* row just written raises.  Leaving the with block closes the file, which
\* flushes the writes made.  W are the lines of the pass, the last `k` of
\* them rows.
Faults(W, k) ==
    IF k = 0 THEN {}
    ELSE {[at |-> "open", done |-> 0]}
            \cup {[at |-> "write", done |-> n] : n \in 0..(Len(W) - 1)}
            \cup {[at |-> "print", done |-> n] :
                    n \in (Len(W) - k + 1)..Len(W)}

\* variant of filter_new: nothing is filtered out
filter_keeps_all(ps, today_str, existing) == ps

\* the filter of lines 70-74
filter_new(ps, today_str, existing) ==
    SelectSeq(ps, LAMBDA p : <<today_str, p.gold_type>> \notin existing)

\* the lines the write pass writes, in order (lines 82-85)
writes(file_exists, rows, today_str) ==
    (IF file_exists THEN <<>> ELSE <<Header>>)
        \o [i \in 1..Len(rows) |-> csv_row(today_str, rows[i])]

\* variant of write_pass: the file is opened with mode "w"
write_pass_truncating(exists, lines, rows, today_str, fault) ==
    [exc |-> "None", ret |-> TRUE, exists |-> TRUE,
     lines |-> writes(FALSE, rows, today_str), new_rows |-> rows,
     out |-> [i \in 1..Len(rows) |-> "Saved"]]

\* the write pass of lines 80-88 for the non-empty new_rows `rows`
write_pass(exists, lines, rows, today_str, fault) ==
    LET file_exists == exists /\ Len(lines) > 0
        W == writes(file_exists, rows, today_str)
        faulty == fault.at # "never"
        n == IF faulty THEN fault.done ELSE Len(W)
        written == IF n > Len(W) - Len(rows)
                   THEN n - (Len(W) - Len(rows)) ELSE 0
        saved == IF fault.at = "print" THEN written - 1 ELSE written
    IN  [exc |-> IF faulty THEN "OSError" ELSE "None",
         ret |-> ~faulty,
         exists |-> exists \/ fault.at # "open",
         lines |-> lines \o SubSeq(W, 1, n),
         new_rows |-> rows,
         out |-> [i \in 1..saved |-> "Saved"]]

\* the one element of a singleton: Only({e(x) : x \in {v}}) is e(v) with v
\* evaluated once
Only(S) == CHOOSE x \in S : TRUE

\* save_prices(prices, today_str) on the file system (exists, lines) under
\* a fault schedule: the file system afterwards, new_rows, what was
\* printed, and the return value or the exception raised
save_prices(exists, lines, ps, today_str, fault) ==
    Only({
        IF existing.exc # "None"
        THEN [exc |-> existing.exc, ret |-> FALSE, exists |-> exists,
              lines |-> lines, new_rows |-> <<>>, out |-> <<>>]
        ELSE Only({
            IF rows = <<>>
            THEN [exc |-> "None", ret |-> FALSE, exists |-> exists,
                  lines |-> lines, new_rows |-> rows, out |-> <<"Skipping">>]
            ELSE write_pass(exists, lines, rows, today_str, fault)
            : rows \in {filter_new(ps, today_str, existing.value)}})
        : existing \in {load_existing_dates(exists, lines)}})

----------------------------------------------------------------------------
(* main *)

SeqsUpTo(S, n) == UNION {[1..k -> S] : k \in 0..n}

\* datetime.now(VN_TZ).strftime("%Y-%m-%d") on two consecutive days
Dates ==
    {<<"2", "0", "2", "4", "-", "0", "1", "-", "0", d>> : d \in {"1", "2"}}

VangTrangSuc ==
    <<"V", "à", "n", "g", " ", "t", "r", "a", "n", "g", " ", "s", "ứ", "c">>

\* the detail records of the upstream responses of the runs: a tracked
\* type, the same type again in other words and at another price, the other
\* tracked type, and a type that is not tracked
ItemNhan ==
    [loaivang |-> Nhan9999, giamua |-> <<"1", ".", "5">>,
     giaban |-> <<"1", ".", "7">>]

ItemNhanAgain ==
    [loaivang |-> <<" ">> \o Nhan9999, giamua |-> <<"1", ".", "6">>,
     giaban |-> <<"1", ".", "7">>]

ItemSJC ==
    [loaivang |-> VangMiengSJC, giamua |-> <<"1", ".", "9">>,
     giaban |-> <<"2", ".", "0">>]

ItemOther ==
    [loaivang |-> VangTrangSuc, giamua |-> <<"5">>, giaban |-> <<"6">>]

RunItems == {ItemNhan, ItemNhanAgain, ItemSJC}

\* the detail lists: none, one or two records; two records are two
\* different ones, or the first record twice
RunLists ==
    {<<>>, <<ItemOther>>, <<ItemNhan, ItemNhan>>}
        \cup {<<a>> : a \in RunItems}
        \cup {<<x[1], x[2]>> :
                x \in {y \in RunItems \X RunItems : y[1] # y[2]}}

\* the decoded bodies: the detail list under "chitiet", an object without
\* it, and the bare detail list
RunBodies ==
    {[kind |-> "dict", keys |-> {"chitiet"}, list |-> L] : L \in RunLists}
    \cup {[kind |-> "dict", keys |-> {"status"}, list |-> <<>>],
          [kind |-> "list", keys |-> {}, list |-> <<ItemNhan>>]}

NoBody == [kind |-> "none", keys |-> {}, list |-> <<>>]

\* what fetch_gold_prices() raises: urlopen (URLError, timeout), decode and
\* json.loads (JSONDecodeError)
FetchErrors == {"URLError", "JSONDecodeError"}

NoFault == [at |-> "never", done |-> 0]

\* variant of except: the exception is not re-raised
except_swallows(out) == [stdout |-> out \o <<"ERROR">>, status |-> "DONE",
                         exit_code |-> 0]

\* the except clause of main: print the ERROR line, re-raise
except(out) == [stdout |-> out \o <<"ERROR">>, status |-> "FAILED",
                exit_code |-> 1]

returns(out) == [stdout |-> out, status |-> "DONE", exit_code |-> 0]

\* one run of main() to its end, on the day `day`, with fetch_gold_prices()
\* doing `f` and the write pass under the fault schedule `fault`
main(day, f, fault) ==
    /\ runs < MaxRuns
    /\ \E parsed \in {IF f.exc = "None" THEN parse_prices(f.data)
                        ELSE [exc |-> f.exc, value |-> <<>>]} :
       \E s \in {save_prices(csv_exists, csv, parsed.value, day, fault)} :
       LET out0 == <<"Fetching">>
           reaches_save == parsed.exc = "None" /\ parsed.value # <<>>
           end == IF parsed.exc # "None" THEN except(out0)
                  ELSE IF parsed.value = <<>>
                  THEN returns(out0 \o <<"WARNING", "Available types">>)
                  ELSE IF s.exc # "None" THEN except(out0 \o s.out)
                  ELSE IF s.ret THEN returns(out0 \o s.out \o <<"Done saved">>)
                  ELSE returns(out0 \o s.out \o <<"Done nothing new">>)
       IN  /\ runs' = runs + 1
           /\ repeated' = (status = "DONE" /\ day = today /\ f = fetched)
           /\ today' = day
           /\ fetched' = f
           /\ prices' = parsed.value
           /\ dir_exists' = (dir_exists \/ reaches_save)
           /\ csv_exists' = IF reaches_save THEN s.exists ELSE csv_exists
           /\ csv' = IF reaches_save THEN s.lines ELSE csv
           /\ new_rows' = IF reaches_save THEN s.new_rows ELSE <<>>
           /\ stdout' = end.stdout
           /\ status' = end.status
           /\ exit_code' = end.exit_code
           /\ UNCHANGED <<p_data, p_out, p_pc>>

\* the faults that can strike the write pass of a run with this body: none
\* when the run does not reach the write pass
RunFaults(day, body) ==
    LET s == save_prices(csv_exists, csv, parse_prices(body).value, day,
                         NoFault)
    IN  IF parse_prices(body).exc # "None" \/ s.exc # "None" THEN {}
        ELSE Faults(writes(csv_exists /\ Len(csv) > 0, s.new_rows, day),
                    Len(s.new_rows))

\* a run whose fetch raises
RunFetchFails(day, e) == main(day, [exc |-> e, data |-> NoBody], NoFault)

\* a run whose fetch returns `body` and whose write pass meets no fault
RunNoFault(day, body) == main(day, [exc |-> "None", data |-> body], NoFault)

\* a run whose fetch returns `body` and whose write pass is cut by a fault
RunWriteFault(day, body) ==
    /\ runs < MaxRuns
    /\ \E fault \in RunFaults(day, body) :
            main(day, [exc |-> "None", data |-> body], fault)

IdleHarness ==
    /\ p_data = NoBody
    /\ p_out = [exc |-> "None", value |-> <<>>]
    /\ p_pc = "idle"

\* before the first run: the store is absent, or present and empty
Init ==
    /\ dir_exists \in BOOLEAN
    /\ csv_exists \in BOOLEAN
    /\ csv_exists => dir_exists
    /\ csv = <<>>
    /\ today = <<>>
    /\ fetched = [exc |-> "None", data |-> NoBody]
    /\ prices = <<>>
    /\ new_rows = <<>>
    /\ stdout = <<>>
    /\ status = "START"
    /\ exit_code = 0
    /\ runs = 0
    /\ repeated = FALSE
    /\ IdleHarness

Next ==
    \/ \E day \in Dates, e \in FetchErrors : RunFetchFails(day, e)
    \/ \E day \in Dates, body \in RunBodies : RunNoFault(day, body)
    \/ \E day \in Dates, body \in RunBodies : RunWriteFault(day, body)

Spec == Init /\ [][Next]_vars

----------------------------------------------------------------------------
(* The parser on its own: parse_prices applied to one decoded body *)

\* the type labels of the bodies: a tracked label, the same label inside
\* whitespace and in another case, the other tracked label, an untracked one
ParseLabels ==
    {Nhan9999,
     <<" ">> \o Nhan9999 \o <<"\t", " ">>,
     <<"n">> \o Tail(Nhan9999),
     VangMiengSJC,
     VangTrangSuc}

\* the price texts: digits and the separators "." and ","
PriceChars == {"0", "7", ".", ","}

PriceTexts == SeqsUpTo(PriceChars, MaxPriceLen)

FewPriceTexts == {<<>>, <<"1", ".", "5">>}

\* a detail record: each of its three fields is present or missing
Item(label, buy, sell) ==
    [k \in (IF label.has THEN {"loaivang"} ELSE {})
            \cup (IF buy.has THEN {"giamua"} ELSE {})
            \cup (IF sell.has THEN {"giaban"} ELSE {}) |->
        CASE k = "loaivang" -> label.text
          [] k = "giamua" -> buy.text
          [] k = "giaban" -> sell.text]

Field(texts) ==
    {[has |-> TRUE, text |-> t] : t \in texts}
        \cup {[has |-> FALSE, text |-> <<>>]}

\* tracked records over every price text, in one field at a time
PricedItems ==
    {Item([has |-> TRUE, text |-> Nhan9999], b, s) :
        b \in Field(PriceTexts), s \in Field(FewPriceTexts)}
    \cup {Item([has |-> TRUE, text |-> Nhan9999], b, s) :
        b \in Field(FewPriceTexts), s \in Field(PriceTexts)}

\* records over every label
LabelledItems ==
    {Item(l, [has |-> TRUE, text |-> b], [has |-> TRUE, text |-> <<"7">>]) :
        l \in Field(ParseLabels), b \in {<<"1", ".", "5">>, <<"1", ",", "6">>}}

ParseLists ==
    {<<a>> : a \in PricedItems} \cup SeqsUpTo(LabelledItems, MaxParseItems)

ParseBodies ==
    {[kind |-> "dict", keys |-> {"chitiet"}, list |-> L] : L \in ParseLists}
    \cup {[kind |-> "list", keys |-> {}, list |-> L] : L \in ParseLists}
    \cup {[kind |-> "dict", keys |-> {"status"}, list |-> <<>>]}

ParseInit ==
    /\ dir_exists = FALSE
    /\ csv_exists = FALSE
    /\ csv = <<>>
    /\ today = <<>>
    /\ fetched = [exc |-> "None", data |-> NoBody]
    /\ prices = <<>>
    /\ new_rows = <<>>
    /\ stdout = <<>>
    /\ status = "START"
    /\ exit_code = 0
    /\ runs = 0
    /\ repeated = FALSE
    /\ p_data \in ParseBodies
    /\ p_out = [exc |-> "None", value |-> <<>>]
    /\ p_pc = "call"

ParseCall ==
    /\ p_pc = "call"
    /\ p_out' = parse_prices(p_data)
    /\ p_pc' = "done"
    /\ UNCHANGED <<dir_exists, csv_exists, csv, today, fetched, prices,
                   new_rows, stdout, status, exit_code, runs, repeated,
                   p_data>>

ParseNext == ParseCall

ParseSpec == ParseInit /\ [][ParseNext]_vars

----------------------------------------------------------------------------
(* What the claims speak of, stated without the operators of the model *)

IsPrefix(a, b) == Len(a) <= Len(b) /\ SubSeq(b, 1, Len(a)) = a

\* the data rows of the store: its lines other than the header line
DataRows(lines) == SelectSeq(lines, LAMBDA l : l # Header)

HeaderCount(lines) == Len(SelectSeq(lines, LAMBDA l : l = Header))

\* the (date, gold_type) pair of a data row
KeyOf(row) == <<row[1], row[2]>>

KeysIn(lines) == {KeyOf(DataRows(lines)[i]) : i \in 1..Len(DataRows(lines))}

\* what a step appended to the store
Appended == SubSeq(csv', Len(csv) + 1, Len(csv'))

CountOf(seq, x) == Len(SelectSeq(seq, LAMBDA e : e = x))

\* `core` is `text` without the whitespace around it
IsTrimOf(core, text) ==
    \E i \in 1..(Len(text) + 1), j \in 0..Len(text) :
        /\ core = SubSeq(text, i, j)
        /\ \A k \in 1..(i - 1) : text[k] \in {" ", "\t", "\n"}
        /\ \A k \in (j + 1)..Len(text) : text[k] \in {" ", "\t", "\n"}
        /\ core # <<>> => core[1] \notin {" ", "\t", "\n"}
                            /\ core[Len(core)] \notin {" ", "\t", "\n"}

\* the record carries a tracked type label
IsTracked(item) ==
    /\ "loaivang" \in DOMAIN item
    /\ \E g \in {Nhan9999, VangMiengSJC} : IsTrimOf(g, item["loaivang"])

TrackedType(item) ==
    CHOOSE g \in {Nhan9999, VangMiengSJC} : IsTrimOf(g, item["loaivang"])

\* the number a text of digits and separators stands for: its digits read
\* from the left, separators skipped; no digit at all stands for 0
RECURSIVE NumberOf(_, _)
NumberOf(text, acc) ==
    IF text = <<>> THEN acc
    ELSE LET c == Head(text)
             d == CASE c = "0" -> 0 [] c = "1" -> 1 [] c = "2" -> 2
                    [] c = "3" -> 3 [] c = "4" -> 4 [] c = "5" -> 5
                    [] c = "6" -> 6 [] c = "7" -> 7 [] c = "8" -> 8
                    [] c = "9" -> 9 [] OTHER -> -1
         IN  NumberOf(Tail(text), IF d = -1 THEN acc ELSE 10 * acc + d)

ClaimedPrice(item, key) ==
    IF key \in DOMAIN item THEN NumberOf(item[key], 0) ELSE 0

\* the tracked records of the body handed to the parser, in its order
TrackedRecords == SelectSeq(p_data.list, IsTracked)

WrappedList == p_data.kind = "dict" /\ "chitiet" \in p_data.keys

----------------------------------------------------------------------------
(* The claims *)

\* C1: after any sequence of runs, the store never holds two data rows with
\* the same (date, gold_type) pair.
C1_UniqueKeys ==
    \A i, j \in 1..Len(DataRows(csv)) :
        i # j => KeyOf(DataRows(csv)[i]) # KeyOf(DataRows(csv)[j])

\* C2: a completed run that follows a completed run of the same day with the
\* same upstream response appends no row and leaves the store as it was.
C2_Idempotent ==
    [][(status = "DONE" /\ status' = "DONE"
            /\ today' = today /\ fetched' = fetched)
        => (new_rows' = <<>> /\ csv' = csv /\ csv_exists' = csv_exists)]_vars

C2_Witness ==
    /\ repeated /\ status = "DONE"
    /\ prices # <<>> /\ new_rows = <<>>
    /\ \A i \in 1..Len(prices) : <<today, prices[i].gold_type>> \in KeysIn(csv)

\* C3: for every key (d, t) in the store, a run on day d whose observations
\* include type t appends no row for (d, t), whatever its prices.
C3_NeverReappended ==
    [][\A key \in KeysIn(csv) :
          (key[1] = today' /\ \E i \in 1..Len(prices') :
                                prices'[i].gold_type = key[2])
          => \A r \in 1..Len(Appended) : KeyOf(Appended[r]) # key]_vars

\* a completed run observed a stored key at another price than the stored
\* one, and the store holds that key once
C3_Witness ==
    /\ status = "DONE"
    /\ \E i \in 1..Len(prices), r \in 1..Len(DataRows(csv)) :
        /\ KeyOf(DataRows(csv)[r]) = <<today, prices[i].gold_type>>
        /\ DataRows(csv)[r][3] = <<"1", "5">>
        /\ prices[i].buy_price = 16
        /\ \A q \in 1..Len(DataRows(csv)) :
              KeyOf(DataRows(csv)[q]) = KeyOf(DataRows(csv)[r]) => q = r

\* C4: whatever a run does, the lines of the store before it are a prefix
\* of the lines after it, and so are the data rows.
C4_AppendOnly ==
    [][IsPrefix(csv, csv')
        /\ IsPrefix(DataRows(csv), DataRows(csv'))
        /\ (csv_exists => csv_exists')]_vars

\* a failed run and a run that saved, each on a store that held rows
C4_Witness ==
    /\ runs >= 2
    /\ new_rows # <<>>
    /\ Len(DataRows(csv)) > Len(new_rows)
    /\ status = "FAILED"

\* C5: a run with k >= 1 new rows leaves the store with all k rows written
\* or with nothing written, the header included.
C5_AllOrNothing ==
    [][Len(new_rows') >= 1
        => \/ csv' = csv
           \/ Len(DataRows(csv')) = Len(DataRows(csv)) + Len(new_rows')]_vars

\* C6: a run whose fetch fails ends FAILED with a non-zero exit code and one
\* ERROR line, and leaves the directory and the store as they were.
C6_FetchFailure ==
    [][fetched'.exc # "None"
        => /\ status' = "FAILED"
           /\ exit_code' # 0
           /\ CountOf(stdout', "ERROR") = 1
           /\ UNCHANGED <<dir_exists, csv_exists, csv>>]_vars

C6_Witness ==
    /\ fetched.exc \in FetchErrors
    /\ status = "FAILED"
    /\ runs >= 2
    /\ Len(DataRows(csv)) >= 1

\* C7: parse_prices fails on neither shape, returns for the bare list L what
\* it returns for {"chitiet": L}, and returns nothing for an object without
\* the detail list.
C7_BothShapes ==
    p_pc = "done" =>
        /\ p_out.exc = "None"
        /\ p_data.kind = "list" =>
              p_out = parse_prices([kind |-> "dict", keys |-> {"chitiet"},
                                    list |-> p_data.list])
        /\ (p_data.kind = "dict" /\ "chitiet" \notin p_data.keys) =>
              p_out.value = <<>>

\* C8: parse_prices returns one observation for each record whose trimmed
\* label is a tracked type and none for any other, in the order of the
\* records.
C8_AllowList ==
    (p_pc = "done" /\ WrappedList) =>
        /\ p_out.exc = "None"
        /\ Len(p_out.value) = Len(TrackedRecords)
        /\ \A k \in 1..Len(TrackedRecords) :
              p_out.value[k].gold_type = TrackedType(TrackedRecords[k])

\* a label in another case, then a tracked label inside whitespace
C8_Witness ==
    /\ p_pc = "done" /\ WrappedList
    /\ Len(p_data.list) = 2
    /\ \A i \in 1..2 : "loaivang" \in DOMAIN p_data.list[i]
    /\ p_data.list[1]["loaivang"] = <<"n">> \o Tail(Nhan9999)
    /\ p_data.list[2]["loaivang"] = <<" ">> \o Nhan9999 \o <<"\t", " ">>
    /\ Len(p_out.value) = 1
    /\ p_out.value[1].gold_type = Nhan9999

\* C9: each price field of a tracked record, made of digits and the
\* separators "." and ",", becomes the non-negative integer its digits
\* form; an empty or missing field becomes 0, and the parse does not fail.
C9_Normalized ==
    (p_pc = "done" /\ WrappedList) =>
        /\ p_out.exc = "None"
        /\ Len(p_out.value) = Len(TrackedRecords)
        /\ \A k \in 1..Len(TrackedRecords) :
              /\ p_out.value[k].buy_price
                    = ClaimedPrice(TrackedRecords[k], "giamua")
              /\ p_out.value[k].sell_price
                    = ClaimedPrice(TrackedRecords[k], "giaban")
              /\ p_out.value[k].buy_price >= 0
              /\ p_out.value[k].sell_price >= 0

\* "7,0" is read as 70 and a missing field as 0
C9_Witness ==
    /\ p_pc = "done" /\ WrappedList
    /\ Len(p_data.list) = 1
    /\ DOMAIN p_data.list[1] = {"loaivang", "giamua"}
    /\ p_data.list[1]["giamua"] = <<"7", ",", "0">>
    /\ p_out.exc = "None"
    /\ p_out.value = <<[gold_type |-> Nhan9999, buy_price |-> 70,
                        sell_price |-> 0]>>

\* C10: the store is empty, or its first line is the header and no other
\* line is; the header is written only by a run that appends at least one
\* row to an absent or empty store.
C10_HeaderLazyOnce ==
    [][/\ csv' # <<>> => (csv'[1] = Header /\ HeaderCount(csv') = 1)
       /\ HeaderCount(csv') > HeaderCount(csv)
            => (csv = <<>> /\ Len(DataRows(csv')) >= 1)]_vars

====
